---------------------------- MODULE Spec2Model ----------------------------
(***************************************************************************)
(* A model of the pymol_lowpoly plugin (src/lowpoly.py): the geometry core *)
(* (vertex_clustering, laplacian_smooth, calculate_normal, parse_obj) and  *)
(* the lowpoly command that drives it.                                     *)
(*                                                                         *)
(* Numbers.  A Python float is modelled by an exact rational <<n, d>> in   *)
(* lowest terms with d > 0; the three non-finite floats that float() can   *)
(* produce are the pairs with d = 0: NaN = <<0,0>>, +inf = <<1,0>>,        *)
(* -inf = <<-1,0>>.  Rounding error of the binary format is not modelled.  *)
(* A vertex is a sequence of rationals (three of them when well formed).   *)
(* Face indices keep Python's 0-based values; TLA+ sequences are 1-based,  *)
(* so index i of the code is position i+1 of the sequence.                 *)
(***************************************************************************)
EXTENDS Integers, Sequences, FiniteSets, TLC

VARIABLES
    \* ---- vertex_clustering harness
    vc_pc,          \* "idle" | "input" | "clustered" | "reclustered"
    vc_vertices,    \* argument vertices: flat triangle sequence
    vc_cell_size,   \* argument cell_size
    vc_result,      \* what vertex_clustering returned
    vc_again        \* what vertex_clustering returned on its own output

vcVars == <<vc_pc, vc_vertices, vc_cell_size, vc_result, vc_again>>

-----------------------------------------------------------------------------
(* Exact arithmetic standing for Python's float arithmetic                  *)

Abs(a) == IF a < 0 THEN -a ELSE a

RECURSIVE Gcd(_, _)
Gcd(a, b) == IF b = 0 THEN a ELSE Gcd(b, a % b)

\* n/d in lowest terms, d # 0
Rat(n, d) ==
    LET s == IF d < 0 THEN -1 ELSE 1
        g == Gcd(Abs(n), Abs(d))
    IN  <<(s * n) \div g, (s * d) \div g>>

NaN == <<0, 0>>
PosInf == <<1, 0>>
IsNaN(x) == x = NaN
IsInf(x) == x[2] = 0 /\ x[1] # 0
IsFinite(x) == x[2] # 0

RAdd(a, b) == Rat(a[1] * b[2] + b[1] * a[2], a[2] * b[2])
RSub(a, b) == Rat(a[1] * b[2] - b[1] * a[2], a[2] * b[2])
RMul(a, b) == Rat(a[1] * b[1], a[2] * b[2])
RDiv(a, b) == Rat(a[1] * b[2], a[2] * b[1])
RNeg(a) == <<-a[1], a[2]>>
RLe(a, b) == a[1] * b[2] <= b[1] * a[2]
RLt(a, b) == a[1] * b[2] < b[1] * a[2]
RFloor(a) == a[1] \div a[2]
Zero == <<0, 1>>
One == <<1, 1>>

\* sum(...) of a sequence of rationals, left to right from 0
RECURSIVE RSum(_)
RSum(s) == IF s = <<>> THEN Zero ELSE RAdd(RSum(SubSeq(s, 1, Len(s) - 1)), s[Len(s)])

\* a vertex with coordinates x/q, y/q, z/q
Pt(x, y, z, q) == <<Rat(x, q), Rat(y, q), Rat(z, q)>>

-----------------------------------------------------------------------------
(* vertex_clustering                                                        *)

\* int(math.floor(x / cell_size)) for a finite x and a cell size that is not
\* NaN and not zero: x / inf is 0.0
FloorDiv(x, cell_size) ==
    IF IsInf(cell_size) THEN 0 ELSE RFloor(RDiv(x, cell_size))

CellKey(v, cell_size) ==
    <<FloorDiv(v[1], cell_size), FloorDiv(v[2], cell_size), FloorDiv(v[3], cell_size)>>

\* position of key in the insertion-ordered dict, 0 when absent
GridPos(grid, key) ==
    IF \E j \in 1..Len(grid) : grid[j].key = key
    THEN CHOOSE j \in 1..Len(grid) : grid[j].key = key
    ELSE 0

\* a bug: a container that does not keep insertion order (a new cell goes
\* to the front)
GridInsertFront(grid, key, v) ==
    IF \E j \in 1..Len(grid) : grid[j].key = key
    THEN [j \in 1..Len(grid) |->
            IF grid[j].key = key
            THEN [key |-> key, points |-> Append(grid[j].points, v)]
            ELSE grid[j]]
    ELSE <<[key |-> key, points |-> <<v>>]>> \o grid

\* if key not in grid: grid[key] = []; grid[key].append(v)
GridInsert(grid, key, v) ==
    LET pos == GridPos(grid, key)
    IN  IF pos = 0
        THEN Append(grid, [key |-> key, points |-> <<v>>])
        ELSE [grid EXCEPT ![pos].points = Append(@, v)]

\* the grid-hashing loop; Python's dict keeps insertion order
RECURSIVE GridBuild(_, _, _, _)
GridBuild(vertices, cell_size, i, grid) ==
    IF i > Len(vertices) THEN grid
    ELSE GridBuild(vertices, cell_size, i + 1,
                   GridInsert(grid, CellKey(vertices[i], cell_size), vertices[i]))

\* a bug: the first point of the cell stands for it
CenterFirst(points) == points[1]

\* [sum(axis)/len(points) for axis in zip(*points)]
Center(points) ==
    [a \in 1..3 |->
        RDiv(RSum([j \in 1..Len(points) |-> points[j][a]]), <<Len(points), 1>>)]

\* a bug: the third pair is not compared
DebounceTwo(idx1, idx2, idx3) == idx1 # idx2 /\ idx2 # idx3

\* if idx1 != idx2 and idx2 != idx3 and idx1 != idx3
Debounce(idx1, idx2, idx3) == idx1 # idx2 /\ idx2 # idx3 /\ idx1 # idx3

\* cluster_map[k]: the 0-based index given to cell k
ClusterMap(grid, key) == GridPos(grid, key) - 1

\* the face-reconstruction loop over triangles t = 0, 1, ...
RECURSIVE NewFaces(_, _, _, _, _)
NewFaces(vertices, cell_size, grid, t, new_faces) ==
    IF 3 * t + 3 > Len(vertices) THEN new_faces
    ELSE LET idx1 == ClusterMap(grid, CellKey(vertices[3 * t + 1], cell_size))
             idx2 == ClusterMap(grid, CellKey(vertices[3 * t + 2], cell_size))
             idx3 == ClusterMap(grid, CellKey(vertices[3 * t + 3], cell_size))
         IN  NewFaces(vertices, cell_size, grid, t + 1,
                      IF Debounce(idx1, idx2, idx3)
                      THEN Append(new_faces, <<idx1, idx2, idx3>>)
                      ELSE new_faces)

Raised(e) == [err |-> e, verts |-> <<>>, faces |-> <<>>]

\* The exceptions the function can raise come first: an empty vertex has no
\* v[0]; math.floor of NaN is a ValueError; a vertex shorter than three has no
\* v[2]; a trailing partial triangle has no vertices[i+1] or vertices[i+2].
vertex_clustering(vertices, cell_size) ==
    IF vertices = <<>> THEN [err |-> "none", verts |-> <<>>, faces |-> <<>>]
    ELSE IF Len(vertices[1]) = 0 THEN Raised("IndexError")
    ELSE IF IsNaN(cell_size) THEN Raised("ValueError")
    ELSE IF \E i \in 1..Len(vertices) : Len(vertices[i]) < 3 THEN Raised("IndexError")
    ELSE IF Len(vertices) % 3 # 0 THEN Raised("IndexError")
    ELSE LET grid == GridBuild(vertices, cell_size, 1, <<>>)
         IN  [err |-> "none",
              verts |-> [j \in 1..Len(grid) |-> Center(grid[j].points)],
              faces |-> NewFaces(vertices, cell_size, grid, 0, <<>>)]

-----------------------------------------------------------------------------
(* Harness of vertex_clustering: draw an input, cluster it, cluster again   *)

MaxTris == 3

\* the points of test_vertex_clustering_simple (a, b, c in one unit cell; d
\* and e in two others), one with a negative coordinate and one off in z
Pa == Pt(1, 1, 1, 10)
Pb == Pt(9, 1, 1, 10)
Pc == Pt(1, 9, 1, 10)
Pd == Pt(15, 1, 1, 10)
Pe == Pt(1, 15, 1, 10)
Pn == Pt(-5, 1, 1, 10)
Pg == Pt(1, 1, 25, 10)

\* v_detailed and v_large of the test, then triangles that collapse in each
\* of the three ways (idx1 = idx2, idx2 = idx3, idx1 = idx3) at one cell size
\* or the other, and triangles that survive at both
ClusterTriangles ==
    { <<Pa, Pb, Pc>>, <<Pa, Pd, Pe>>,
      <<Pa, Pb, Pd>>, <<Pd, Pa, Pb>>, <<Pa, Pd, Pb>>,
      <<Pn, Pa, Pg>>, <<Pd, Pe, Pn>>, <<Pb, Pn, Pe>> }

ClusterCellSizes == { <<1, 1>>, <<2, 1>> }

\* triangles written one after the other as a flat vertex sequence
Flatten(tris) == [p \in 1..(3 * Len(tris)) |-> tris[((p - 1) \div 3) + 1][((p - 1) % 3) + 1]]

NoResult == [err |-> "none", verts |-> <<>>, faces |-> <<>>]

VcInit ==
    /\ vc_pc = "input"
    /\ \E n \in 0..MaxTris : \E tris \in [1..n -> ClusterTriangles] :
            vc_vertices = Flatten(tris)
    /\ vc_cell_size \in ClusterCellSizes
    /\ vc_result = NoResult
    /\ vc_again = NoResult

VcIdle ==
    /\ vc_pc = "idle"
    /\ vc_vertices = <<>>
    /\ vc_cell_size = One
    /\ vc_result = NoResult
    /\ vc_again = NoResult

Cluster ==
    /\ vc_pc = "input"
    /\ vc_result' = vertex_clustering(vc_vertices, vc_cell_size)
    /\ vc_pc' = "clustered"
    /\ UNCHANGED <<vc_vertices, vc_cell_size, vc_again>>

\* the faces of a mesh written out again as a flat triangle sequence
Expand(verts, faces) ==
    [p \in 1..(3 * Len(faces)) |-> verts[faces[((p - 1) \div 3) + 1][((p - 1) % 3) + 1] + 1]]

Recluster ==
    /\ vc_pc = "clustered"
    /\ vc_again' = vertex_clustering(Expand(vc_result.verts, vc_result.faces), vc_cell_size)
    /\ vc_pc' = "reclustered"
    /\ UNCHANGED <<vc_vertices, vc_cell_size, vc_result>>


-----------------------------------------------------------------------------
(* Properties of vertex_clustering                                          *)

VcTris == Len(vc_vertices) \div 3
VcKey(p) == CellKey(vc_vertices[p], vc_cell_size)
VcKeys == { VcKey(p) : p \in 1..Len(vc_vertices) }
\* the triangles whose three vertices lie in three pairwise distinct cells
VcSurvivors ==
    { t \in 0..(VcTris - 1) :
        /\ VcKey(3 * t + 1) # VcKey(3 * t + 2)
        /\ VcKey(3 * t + 2) # VcKey(3 * t + 3)
        /\ VcKey(3 * t + 1) # VcKey(3 * t + 3) }
\* the position at which cell k is first met in the input
VcFirstPos(k) ==
    CHOOSE p \in 1..Len(vc_vertices) :
        VcKey(p) = k /\ \A q \in 1..(p - 1) : VcKey(q) # k
\* the cell in which the i-th returned vertex lies
VcOutKey(i) == CellKey(vc_result.verts[i], vc_cell_size)

\* C1: for an input whose length is a multiple of 3 and a cell size > 0,
\* every returned face has three pairwise distinct indices, each of them
\* with 0 <= index < len(returned vertices), and nothing is raised.
C1_FacesValid ==
    (vc_pc # "input" /\ Len(vc_vertices) % 3 = 0 /\ RLt(Zero, vc_cell_size)) =>
        /\ vc_result.err = "none"
        /\ \A k \in 1..Len(vc_result.faces) :
            LET f == vc_result.faces[k]
            IN  /\ Len(f) = 3
                /\ f[1] # f[2] /\ f[2] # f[3] /\ f[1] # f[3]
                /\ \A c \in 1..3 : 0 <= f[c] /\ f[c] < Len(vc_result.verts)

\* a run in which one triangle collapsed on idx1 = idx3 and another survived
C1_Witness ==
    /\ vc_pc = "clustered"
    /\ Len(vc_result.faces) >= 1
    /\ \E t \in 0..(VcTris - 1) :
        /\ VcKey(3 * t + 1) = VcKey(3 * t + 3)
        /\ VcKey(3 * t + 1) # VcKey(3 * t + 2)

\* C2: one returned vertex per distinct occupied cell, in the order in which
\* the cells are first met, each the mean of its cell's points; the face
\* count is the number of input triangles with three pairwise distinct cells,
\* so at most the triangle count; v_detailed gives 1 vertex and 0 faces,
\* v_large 3 vertices and 1 face.
C2_OnePerCell ==
    vc_pc # "input" =>
        /\ Len(vc_result.verts) = Cardinality(VcKeys)
        /\ { VcOutKey(i) : i \in 1..Len(vc_result.verts) } = VcKeys
        /\ \A i, j \in 1..Len(vc_result.verts) :
            i < j => VcFirstPos(VcOutKey(i)) < VcFirstPos(VcOutKey(j))
        /\ \A i \in 1..Len(vc_result.verts) :
            LET pts == SelectSeq(vc_vertices, LAMBDA v : CellKey(v, vc_cell_size) = VcOutKey(i))
            IN  \A a \in 1..3 :
                    RMul(<<Len(pts), 1>>, vc_result.verts[i][a])
                        = RSum([j \in 1..Len(pts) |-> pts[j][a]])
        /\ Len(vc_result.faces) = Cardinality(VcSurvivors)
        /\ Len(vc_result.faces) <= VcTris
        /\ (vc_vertices = <<Pa, Pb, Pc>> /\ vc_cell_size = One) =>
            (Len(vc_result.verts) = 1 /\ Len(vc_result.faces) = 0)
        /\ (vc_vertices = <<Pa, Pd, Pe>> /\ vc_cell_size = One) =>
            (Len(vc_result.verts) = 3 /\ Len(vc_result.faces) = 1)

\* a run with fewer vertices than input points, a cell that holds two
\* different points, and both a dropped and a kept triangle
C2_Witness ==
    /\ vc_pc = "clustered"
    /\ Len(vc_result.verts) >= 3
    /\ \E p, q \in 1..Len(vc_vertices) : VcKey(p) = VcKey(q) /\ vc_vertices[p] # vc_vertices[q]
    /\ Len(vc_result.faces) >= 1
    /\ Len(vc_result.faces) < VcTris

\* every representative lies in a cell of its own, the cell it stands for
VcOnePerCell ==
    /\ \A i, j \in 1..Len(vc_result.verts) : i # j => VcOutKey(i) # VcOutKey(j)
    /\ \A p \in 1..Len(vc_vertices) : \E i \in 1..Len(vc_result.verts) : VcOutKey(i) = VcKey(p)

\* C9 as stated: clustering the output again, expanded to a flat triangle
\* sequence, with the same cell size returns the same vertices and the same
\* faces, given that each representative lies in the cell it represents.
C9_SameMesh ==
    (vc_pc = "reclustered" /\ VcOnePerCell) =>
        /\ vc_again.verts = vc_result.verts
        /\ vc_again.faces = vc_result.faces

\* the 0-based indices the faces of a result refer to, in face-list order
Refs(r) == [p \in 1..(3 * Len(r.faces)) |-> r.faces[((p - 1) \div 3) + 1][((p - 1) % 3) + 1]]

\* C9 as amended: clustering again collapses nothing further. It returns as
\* many faces as before; its vertices are the vertices some face refers to,
\* one each, numbered in the order in which the face list first refers to
\* them; and every face refers to the same three positions as before.
C9_NoFurtherCollapse ==
    (vc_pc = "reclustered" /\ VcOnePerCell) =>
        LET old == Refs(vc_result)
            new == Refs(vc_again)
        IN  /\ vc_again.err = "none"
            /\ Len(vc_again.faces) = Len(vc_result.faces)
            /\ Len(vc_again.verts) = Cardinality({ old[p] : p \in 1..Len(old) })
            /\ \A p \in 1..Len(new) :
                /\ vc_again.verts[new[p] + 1] = vc_result.verts[old[p] + 1]
                /\ new[p] <= Cardinality({ new[q] : q \in 1..(p - 1) })
            /\ \A p, q \in 1..Len(new) : (new[p] = new[q]) <=> (old[p] = old[q])

\* a second clustering of a mesh that kept two faces and has a vertex no
\* face refers to
C9_Witness ==
    /\ vc_pc = "reclustered"
    /\ VcOnePerCell
    /\ Len(vc_result.faces) >= 2
    /\ Len(vc_again.verts) < Len(vc_result.verts)

-----------------------------------------------------------------------------
(* laplacian_smooth                                                         *)
(*                                                                         *)
(* Vertices are Python lists, so they are objects: heap is the store of     *)
(* vertex objects (object id = position in heap) and a vertex list is a     *)
(* sequence of ids.  Nothing in the function writes to an existing vertex   *)
(* object; list(v) and [x, y, z] allocate new ones.                         *)

VARIABLES
    ls_pc,          \* "idle" | "call" | "loop" | "pass" | "done"
    heap,           \* vertex objects: id -> [x, y, z]
    ls_vertices,    \* argument vertices: ids of the caller's vertex objects
    ls_faces,       \* argument faces
    ls_iterations,  \* argument iterations
    lambda_factor,  \* argument lambda_factor
    adjacency,      \* vertex index -> set of neighbour indices
    smoothed_verts, \* ids of the current pass's input
    new_verts,      \* ids of the current pass's output, as far as built
    ls_pass,        \* the loop counter of `for _ in range(iterations)`
    ls_result,      \* the returned list of ids
    ls_given,       \* history: the arguments as they were at the call
    ls_prev         \* history: the positions the current pass started from

lsVars == <<ls_pc, heap, ls_vertices, ls_faces, ls_iterations, lambda_factor,
            adjacency, smoothed_verts, new_verts, ls_pass, ls_result,
            ls_given, ls_prev>>

\* sum of f[n] over the indices n of a set
RECURSIVE SumOver(_, _)
SumOver(S, f) ==
    IF S = {} THEN Zero
    ELSE LET n == CHOOSE m \in S : TRUE
         IN  RAdd(f[n], SumOver(S \ {n}, f))

\* adjacency[f[0]].add(f[1]); adjacency[f[0]].add(f[2]); ... for one face
AddFace(adj, f) ==
    [i \in DOMAIN adj |->
        adj[i] \cup (IF i = f[1] THEN {f[2], f[3]} ELSE {})
               \cup (IF i = f[2] THEN {f[1], f[3]} ELSE {})
               \cup (IF i = f[3] THEN {f[1], f[2]} ELSE {})]

\* adjacency = {i: set() for i in range(len(vertices))}, then every face
RECURSIVE BuildAdjacency(_, _, _)
BuildAdjacency(adj, faces, k) ==
    IF k > Len(faces) THEN adj
    ELSE BuildAdjacency(AddFace(adj, faces[k]), faces, k + 1)

Adjacency(n, faces) == BuildAdjacency([i \in 0..(n - 1) |-> {}], faces, 1)

\* a bug: the pass updates in place, so a neighbour already visited in this
\* pass is read at its new position
ReadInPlace(old, new, n) == IF n + 1 <= Len(new) THEN new[n + 1] ELSE old[n + 1]

\* smoothed_verts[n]: a neighbour's position is read from the pass's input
ReadNeighbour(old, new, n) == old[n + 1]

\* The body of the inner loop for vertex index i: old are the positions in
\* smoothed_verts, new those appended to new_verts so far.  The result is the
\* position of the vertex appended next.
SmoothVertex(old, new, nbrs, i, lam) ==
    IF nbrs = {} THEN old[i + 1]
    ELSE [a \in 1..3 |->
            LET avg == RDiv(SumOver(nbrs, [n \in nbrs |-> ReadNeighbour(old, new, n)[a]]),
                            <<Cardinality(nbrs), 1>>)
                d   == RMul(RSub(avg, old[i + 1][a]), lam)
            IN  RAdd(old[i + 1][a], d)]

\* one pass over all vertices, in enumerate order
RECURSIVE SmoothPass(_, _, _, _)
SmoothPass(old, new, adj, lam) ==
    IF Len(new) = Len(old) THEN new
    ELSE SmoothPass(old, Append(new, SmoothVertex(old, new, adj[Len(new)], Len(new), lam)),
                    adj, lam)

RECURSIVE SmoothPasses(_, _, _, _)
SmoothPasses(verts, adj, n, lam) ==
    IF n <= 0 THEN verts
    ELSE SmoothPasses(SmoothPass(verts, <<>>, adj, lam), adj, n - 1, lam)

\* laplacian_smooth on positions alone (the caller in lowpoly only reads the
\* returned positions)
laplacian_smooth(vertices, faces, iterations, lam) ==
    SmoothPasses(vertices, Adjacency(Len(vertices), faces), iterations, lam)

\* a bug: the working list aliases the caller's vertex objects
AliasVertices(h, ids) == [heap |-> h, ids |-> ids]

\* smoothed_verts = [list(v) for v in vertices]: a new object per vertex
CopyVertices(h, ids) ==
    [heap |-> h \o [j \in 1..Len(ids) |-> h[ids[j]]],
     ids  |-> [j \in 1..Len(ids) |-> Len(h) + j]]

Positions(h, ids) == [j \in 1..Len(ids) |-> h[ids[j]]]

\* lines 275-281
LsEnter ==
    /\ ls_pc = "call"
    /\ adjacency' = Adjacency(Len(ls_vertices), ls_faces)
    /\ LET c == CopyVertices(heap, ls_vertices)
       IN  heap' = c.heap /\ smoothed_verts' = c.ids
    /\ ls_pass' = 0
    /\ ls_pc' = "loop"
    /\ UNCHANGED <<ls_vertices, ls_faces, ls_iterations, lambda_factor, new_verts,
                   ls_result, ls_given, ls_prev>>

\* line 283-284: another pass begins
LsPassBegin ==
    /\ ls_pc = "loop"
    /\ ls_pass < ls_iterations
    /\ new_verts' = <<>>
    /\ ls_prev' = Positions(heap, smoothed_verts)
    /\ ls_pc' = "pass"
    /\ UNCHANGED <<heap, ls_vertices, ls_faces, ls_iterations, lambda_factor, adjacency,
                   smoothed_verts, ls_pass, ls_result, ls_given>>

\* lines 285-301: the vertex at index len(new_verts) is visited.  A vertex
\* without neighbours is appended as the object it is; any other gets a new
\* object.
LsVisit ==
    /\ ls_pc = "pass"
    /\ Len(new_verts) < Len(smoothed_verts)
    /\ LET i == Len(new_verts)
       IN  IF adjacency[i] = {}
           THEN /\ new_verts' = Append(new_verts, smoothed_verts[i + 1])
                /\ heap' = heap
           ELSE /\ heap' = Append(heap, SmoothVertex(Positions(heap, smoothed_verts),
                                                      Positions(heap, new_verts),
                                                      adjacency[i], i, lambda_factor))
                /\ new_verts' = Append(new_verts, Len(heap) + 1)
    /\ UNCHANGED <<ls_pc, ls_vertices, ls_faces, ls_iterations, lambda_factor, adjacency,
                   smoothed_verts, ls_pass, ls_result, ls_given, ls_prev>>

\* line 302
LsPassEnd ==
    /\ ls_pc = "pass"
    /\ Len(new_verts) = Len(smoothed_verts)
    /\ smoothed_verts' = new_verts
    /\ ls_pass' = ls_pass + 1
    /\ ls_pc' = "loop"
    /\ UNCHANGED <<heap, ls_vertices, ls_faces, ls_iterations, lambda_factor, adjacency,
                   new_verts, ls_result, ls_given, ls_prev>>

\* line 304
LsReturn ==
    /\ ls_pc = "loop"
    /\ ls_pass >= ls_iterations
    /\ ls_result' = smoothed_verts
    /\ ls_pc' = "done"
    /\ UNCHANGED <<heap, ls_vertices, ls_faces, ls_iterations, lambda_factor, adjacency,
                   smoothed_verts, new_verts, ls_pass, ls_given, ls_prev>>

(* Harness of laplacian_smooth *)

MaxIterations == 2

Mesh(verts, faces) == [verts |-> verts, faces |-> faces]

\* the pyramid of verify_smoothing.py
Pyramid ==
    Mesh(<<Pt(-1, -1, 0, 1), Pt(1, -1, 0, 1), Pt(1, 1, 0, 1), Pt(-1, 1, 0, 1), Pt(0, 0, 1, 1)>>,
         << <<0, 1, 4>>, <<1, 2, 4>>, <<2, 3, 4>>, <<3, 0, 4>>, <<0, 3, 2>>, <<0, 2, 1>> >>)

\* the mesh of test_coloring_chains
OneTriangle == Mesh(<<Pt(0, 0, 0, 1), Pt(1, 0, 0, 1), Pt(0, 1, 0, 1)>>, << <<0, 1, 2>> >>)

\* two triangles over an edge, the vertex in the middle of the list in none
TwoTriangles ==
    Mesh(<<Pt(0, 0, 0, 1), Pt(3, 0, 1, 1), Pt(5, 5, 5, 1), Pt(0, 2, 0, 1), Pt(4, 3, -2, 1)>>,
         << <<0, 1, 3>>, <<3, 1, 4>> >>)

NoFaces == Mesh(<<Pt(0, 0, 0, 1), Pt(1, 2, 3, 1)>>, <<>>)

EmptyMesh == Mesh(<<>>, <<>>)

SmoothMeshes == { Pyramid, OneTriangle, TwoTriangles, NoFaces, EmptyMesh }

\* the default 0.5, and 1 and 1/4 of the documented range (0, 1]
Lambdas == { <<1, 2>>, <<1, 1>>, <<1, 4>> }

LsInit ==
    /\ ls_pc = "call"
    /\ \E m \in SmoothMeshes :
        /\ heap = m.verts
        /\ ls_vertices = [j \in 1..Len(m.verts) |-> j]
        /\ ls_faces = m.faces
        /\ ls_given = m
        /\ ls_prev = m.verts
    /\ ls_iterations \in 0..MaxIterations
    /\ lambda_factor \in Lambdas
    /\ adjacency = <<>>
    /\ smoothed_verts = <<>>
    /\ new_verts = <<>>
    /\ ls_pass = 0
    /\ ls_result = <<>>

LsIdle ==
    /\ ls_pc = "idle"
    /\ heap = <<>>
    /\ ls_vertices = <<>>
    /\ ls_faces = <<>>
    /\ ls_given = EmptyMesh
    /\ ls_prev = <<>>
    /\ ls_iterations = 0
    /\ lambda_factor = <<1, 2>>
    /\ adjacency = <<>>
    /\ smoothed_verts = <<>>
    /\ new_verts = <<>>
    /\ ls_pass = 0
    /\ ls_result = <<>>

-----------------------------------------------------------------------------
(* Properties of laplacian_smooth                                           *)

\* the neighbours of vertex index i, read off the face list directly
LsNeighbours(i) ==
    { j \in 0..(Len(ls_given.verts) - 1) :
        \E k \in 1..Len(ls_given.faces) : \E a, b \in 1..3 :
            a # b /\ ls_given.faces[k][a] = i /\ ls_given.faces[k][b] = j }

\* pos is where one pass puts vertex i of the snapshot prev: where it was if
\* it has no neighbours, else old + (mean - old) * lambda, the mean being the
\* point whose |N|-fold is the sum of the neighbours' snapshot positions
LsIsStepOf(pos, prev, i) ==
    LET N == LsNeighbours(i)
        old == prev[i + 1]
    IN  IF N = {} THEN pos = old
        ELSE \A a \in 1..3 :
                LET mean == RAdd(old[a], RDiv(RSub(pos[a], old[a]), lambda_factor))
                IN  RMul(<<Cardinality(N), 1>>, mean) = SumOver(N, [n \in N |-> prev[n + 1][a]])

\* the same step as a function of the snapshot
LsStep(prev) ==
    [j \in 1..Len(prev) |->
        LET N == LsNeighbours(j - 1)
        IN  IF N = {} THEN prev[j]
            ELSE [a \in 1..3 |->
                    LET mean == RDiv(SumOver(N, [n \in N |-> prev[n + 1][a]]), <<Cardinality(N), 1>>)
                    IN  RAdd(RMul(RSub(One, lambda_factor), prev[j][a]), RMul(lambda_factor, mean))]]

RECURSIVE LsSteps(_, _)
LsSteps(prev, n) == IF n = 0 THEN prev ELSE LsSteps(LsStep(prev), n - 1)

\* C3: a pass is double-buffered. Every vertex appended in a pass is the step
\* of the snapshot the pass started from (old + (mean of the neighbours in
\* the snapshot - old) * lambda, or the old position without neighbours), so
\* the pass does not depend on the visiting order; the returned positions are
\* n applications of the step to the input; the pyramid's apex ends at z = 0.5
\* after one pass with lambda = 0.5.
C3_DoubleBuffered ==
    /\ ls_pc = "pass" =>
        \A j \in 1..Len(new_verts) : LsIsStepOf(heap[new_verts[j]], ls_prev, j - 1)
    /\ (ls_pc = "loop" /\ ls_pass > 0) =>
        Positions(heap, smoothed_verts) = LsStep(ls_prev)
    /\ ls_pc = "done" =>
        Positions(heap, ls_result) = LsSteps(ls_given.verts, ls_iterations)
    /\ (ls_pc = "done" /\ ls_given = Pyramid /\ ls_iterations = 1 /\ lambda_factor = <<1, 2>>) =>
        heap[ls_result[5]][3] = <<1, 2>>

\* the second pass over the two triangles is done: vertex 1 was visited after
\* its neighbour 0 had moved, and the vertex without neighbours stayed
C3_Witness ==
    /\ ls_pc = "done"
    /\ ls_given = TwoTriangles
    /\ ls_iterations = 2
    /\ Positions(heap, ls_result)[1] # ls_given.verts[1]
    /\ Positions(heap, ls_result)[3] = ls_given.verts[3]

\* C4: for n >= 0 the returned list has the length and the order of the
\* input (a vertex without neighbours is where it was, at its index), the
\* caller's vertex list, its vertex objects and the face list are as they
\* were, and for n = 0 the returned positions equal the input's while no
\* returned vertex is one of the caller's objects.
C4_InputUntouched ==
    /\ ls_pc # "idle" =>
        /\ ls_vertices = [j \in 1..Len(ls_given.verts) |-> j]
        /\ Positions(heap, ls_vertices) = ls_given.verts
        /\ ls_faces = ls_given.faces
    /\ ls_pc = "done" =>
        /\ Len(ls_result) = Len(ls_vertices)
        /\ \A j \in 1..Len(ls_result) :
            LsNeighbours(j - 1) = {} => heap[ls_result[j]] = ls_given.verts[j]
        /\ ls_iterations = 0 =>
            /\ Positions(heap, ls_result) = ls_given.verts
            /\ \A j, k \in 1..Len(ls_result) : ls_result[j] # ls_vertices[k]

\* a call with n = 0 on a mesh with vertices has returned
C4_Witness ==
    /\ ls_pc = "done"
    /\ ls_iterations = 0
    /\ Len(ls_result) >= 3

-----------------------------------------------------------------------------
(* calculate_normal                                                         *)
(*                                                                         *)
(* math.sqrt is kept exact: the length l is carried as its square, and a    *)
(* quotient x / l as the signed square root [sgn, sq] standing for          *)
(* sgn * sqrt(sq), sq = x*x / (l*l) in lowest terms.  Two such values are   *)
(* the same number iff they are the same record.                            *)

VARIABLES
    cn_pc,          \* "idle" | "input" | "called" | "reversed"
    cn_v1, cn_v2, cn_v3,    \* the arguments
    cn_normal,      \* what calculate_normal(v1, v2, v3) returned
    cn_reversed     \* what it returned with two of the vertices exchanged

cnVars == <<cn_pc, cn_v1, cn_v2, cn_v3, cn_normal, cn_reversed>>

Sign(x) == IF x[1] > 0 THEN 1 ELSE IF x[1] < 0 THEN -1 ELSE 0

Root(sgn, sq) == [sgn |-> sgn, sq |-> sq]

\* x / l, where lsq = l * l > 0
DivSqrt(x, lsq) == Root(Sign(x), RDiv(RMul(x, x), lsq))

\* the tuple (0, 0, 1)
Fallback == <<Root(0, Zero), Root(0, Zero), Root(1, One)>>

\* a bug: the guard is missing
NeverZero(lsq) == FALSE

\* if l == 0
IsZero(lsq) == lsq = Zero

Returned(n) == [err |-> "none", n |-> n]

calculate_normal(v1, v2, v3) ==
    LET u  == <<RSub(v2[1], v1[1]), RSub(v2[2], v1[2]), RSub(v2[3], v1[3])>>
        v  == <<RSub(v3[1], v1[1]), RSub(v3[2], v1[2]), RSub(v3[3], v1[3])>>
        nx == RSub(RMul(u[2], v[3]), RMul(u[3], v[2]))
        ny == RSub(RMul(u[3], v[1]), RMul(u[1], v[3]))
        nz == RSub(RMul(u[1], v[2]), RMul(u[2], v[1]))
        lsq == RAdd(RAdd(RMul(nx, nx), RMul(ny, ny)), RMul(nz, nz))
    IN  IF IsZero(lsq) THEN Returned(Fallback)
        ELSE IF lsq = Zero THEN [err |-> "ZeroDivisionError", n |-> <<>>]
        ELSE Returned(<<DivSqrt(nx, lsq), DivSqrt(ny, lsq), DivSqrt(nz, lsq)>>)

(* Harness of calculate_normal *)

MaxCoord == 2

NormalPoints ==
    { Pt(x, y, z, 1) : x \in 0..MaxCoord, y \in 0..MaxCoord, z \in 0..MaxCoord }

\* the first vertex is drawn from the corners of the unit cube only
NormalOrigins == { Pt(x, y, z, 1) : x \in 0..1, y \in 0..1, z \in 0..1 }

NoNormal == Returned(<<>>)

CnInit ==
    /\ cn_pc = "input"
    /\ cn_v1 \in NormalOrigins
    /\ cn_v2 \in NormalPoints
    /\ cn_v3 \in NormalPoints
    /\ cn_normal = NoNormal
    /\ cn_reversed = <<>>

CnIdle ==
    /\ cn_pc = "idle"
    /\ cn_v1 = Pt(0, 0, 0, 1)
    /\ cn_v2 = Pt(0, 0, 0, 1)
    /\ cn_v3 = Pt(0, 0, 0, 1)
    /\ cn_normal = NoNormal
    /\ cn_reversed = <<>>

Normal ==
    /\ cn_pc = "input"
    /\ cn_normal' = calculate_normal(cn_v1, cn_v2, cn_v3)
    /\ cn_pc' = "called"
    /\ UNCHANGED <<cn_v1, cn_v2, cn_v3, cn_reversed>>

\* the three ways of exchanging two vertices
NormalReversed ==
    /\ cn_pc = "called"
    /\ cn_reversed' = << calculate_normal(cn_v2, cn_v1, cn_v3),
                         calculate_normal(cn_v1, cn_v3, cn_v2),
                         calculate_normal(cn_v3, cn_v2, cn_v1) >>
    /\ cn_pc' = "reversed"
    /\ UNCHANGED <<cn_v1, cn_v2, cn_v3, cn_normal>>

(* Properties of calculate_normal *)

\* component a of (v2 - v1) x (v3 - v1), as a determinant of differences
CnCross(a) ==
    LET b == (a % 3) + 1
        c == (b % 3) + 1
        d(p, q, k) == RSub(p[k], q[k])
    IN  RSub(RMul(d(cn_v2, cn_v1, b), d(cn_v3, cn_v1, c)),
             RMul(d(cn_v2, cn_v1, c), d(cn_v3, cn_v1, b)))

CnCrossSq == RAdd(RAdd(RMul(CnCross(1), CnCross(1)), RMul(CnCross(2), CnCross(2))),
                  RMul(CnCross(3), CnCross(3)))

CnDegenerate == \A a \in 1..3 : CnCross(a) = Zero

\* C5: the result is the cross product (v2-v1) x (v3-v1) scaled to length 1
\* (every component has the cross product's sign and its square times the
\* squared length of the cross product is the component's square), exchanging
\* two vertices negates it, and a cross product of zero length gives
\* (0, 0, 1); no call raises a division error.
C5_NormalDirection ==
    /\ cn_pc \in {"called", "reversed"} =>
        /\ cn_normal.err = "none"
        /\ CnDegenerate => cn_normal.n = Fallback
        /\ ~CnDegenerate =>
            /\ \A a \in 1..3 :
                /\ cn_normal.n[a].sgn = Sign(CnCross(a))
                /\ RMul(cn_normal.n[a].sq, CnCrossSq) = RMul(CnCross(a), CnCross(a))
            /\ RAdd(RAdd(cn_normal.n[1].sq, cn_normal.n[2].sq), cn_normal.n[3].sq) = One
    /\ cn_pc = "reversed" =>
        \A k \in 1..3 :
            /\ cn_reversed[k].err = "none"
            /\ CnDegenerate => cn_reversed[k].n = Fallback
            /\ ~CnDegenerate =>
                \A a \in 1..3 :
                    /\ cn_reversed[k].n[a].sgn = -cn_normal.n[a].sgn
                    /\ cn_reversed[k].n[a].sq = cn_normal.n[a].sq

\* a triangle whose normal has three non-zero components and whose reversal
\* has the opposite ones
C5_Witness ==
    /\ cn_pc = "reversed"
    /\ \A a \in 1..3 : cn_normal.n[a].sgn # 0
    /\ \A k \in 1..3 : \A a \in 1..3 : cn_reversed[k].n[a].sgn = -cn_normal.n[a].sgn

-----------------------------------------------------------------------------
(* parse_obj                                                                *)
(*                                                                         *)
(* A file is a sequence of stripped lines.  A line is [tag, toks]: tag "v"  *)
(* (it starts with 'v '), "f" (it starts with 'f ') or "other"; toks are    *)
(* the whitespace-separated tokens after the marker.  A vertex token is     *)
(* [ok, val]: ok says whether float() accepts it.  A face token is the      *)
(* sequence of its '/'-separated sub-fields, each [ok, val] with ok saying  *)
(* whether int() accepts it.                                                *)

Num(n) == [ok |-> TRUE, val |-> <<n, 1>>]
BadNum == [ok |-> FALSE, val |-> Zero]
Idx(n) == [ok |-> TRUE, val |-> n]
VLine(toks) == [tag |-> "v", toks |-> toks]
FLine(toks) == [tag |-> "f", toks |-> toks]
OtherLine == [tag |-> "other", toks |-> <<>>]

\* line.split()[1:4]
FirstThree(toks) == SubSeq(toks, 1, IF Len(toks) < 3 THEN Len(toks) ELSE 3)

RECURSIVE ParseLines(_, _, _, _)
ParseLines(lines, k, verts, faces) ==
    IF k > Len(lines) THEN [err |-> "none", verts |-> verts, faces |-> faces]
    ELSE LET line == lines[k]
         IN  IF line.tag = "v"
             THEN LET toks == FirstThree(line.toks)
                  IN  IF \E j \in 1..Len(toks) : ~toks[j].ok
                      THEN Raised("ValueError")
                      ELSE ParseLines(lines, k + 1,
                                      Append(verts, [j \in 1..Len(toks) |-> toks[j].val]), faces)
             ELSE IF line.tag = "f"
             THEN IF \E j \in 1..Len(line.toks) : ~line.toks[j][1].ok
                  THEN Raised("ValueError")
                  ELSE ParseLines(lines, k + 1, verts,
                                  Append(faces, [j \in 1..Len(line.toks) |-> line.toks[j][1].val - 1]))
             ELSE ParseLines(lines, k + 1, verts, faces)

parse_obj(lines) == ParseLines(lines, 1, <<>>, <<>>)

-----------------------------------------------------------------------------
(* lowpoly                                                                  *)

VARIABLES
    lp_pc,          \* "idle" | "start" | "setup" | "chains" | "done"
    lp_args,        \* history: the factor and rounding arguments as passed
    factor,         \* after float() and the clamp
    rounding,       \* after int()
    color,          \* the color argument; "" stands for None
    custom_palette, \* sequence of color names, <<>> for None
    bake_colors,
    temp_obj,       \* "none" | "created" | "deleted"
    chains,         \* sorted chain names (a name is its rank: 0 is '')
    idx,            \* how many chains the loop has been through
    full_cgo,
    loaded,         \* the arguments of the cmd.load_cgo calls made
    pretty,         \* whether the rendering settings of step 6 were applied
    lp_outcome,     \* "running" | "invalid_args" | "empty_mesh" | "success"
                    \* | the name of the exception the call ended with
    vc_calls,       \* history: the cell sizes vertex_clustering was called with
    ls_calls,       \* history: the iteration counts laplacian_smooth was called with
    fragments,      \* history: the chains whose block was appended, each with
                    \* the mesh vertex_clustering returned and its color
    lp_log          \* history: what became of each chain the loop looked at

lpVars == <<lp_pc, lp_args, factor, rounding, color, custom_palette, bake_colors,
            temp_obj, chains, idx, full_cgo, loaded, pretty, lp_outcome,
            vc_calls, ls_calls, fragments, lp_log>>

\* seq[i] of Python, negative indices counting from the end
InRange(seq, i) == -Len(seq) <= i /\ i < Len(seq)
PyIndex(seq, i) == IF i >= 0 THEN seq[i + 1] ELSE seq[Len(seq) + i + 1]

\* lines 134-137: the fan of one face
Fan(v_face) ==
    [p \in 1..(3 * (IF Len(v_face) < 2 THEN 0 ELSE Len(v_face) - 2)) |->
        LET i == ((p - 1) \div 3) + 1
            c == (p - 1) % 3
        IN  IF c = 0 THEN v_face[1] ELSE IF c = 1 THEN v_face[i + 1] ELSE v_face[i + 2]]

\* lines 131-137
RECURSIVE FlatVerts(_, _, _, _)
FlatVerts(vertices, faces, k, flat_verts) ==
    IF k > Len(faces) THEN [err |-> "none", flat |-> flat_verts]
    ELSE IF \E j \in 1..Len(faces[k]) : ~InRange(vertices, faces[k][j])
    THEN [err |-> "IndexError", flat |-> <<>>]
    ELSE FlatVerts(vertices, faces, k + 1,
                   flat_verts \o Fan([j \in 1..Len(faces[k]) |-> PyIndex(vertices, faces[k][j])]))

\* the pastel palette of lines 62-71, in hundredths
pastel_colors ==
    << Pt(60, 75, 90, 100), Pt(60, 90, 60, 100), Pt(90, 60, 60, 100), Pt(90, 90, 60, 100),
       Pt(80, 60, 90, 100), Pt(60, 90, 90, 100), Pt(90, 80, 60, 100), Pt(70, 70, 70, 100) >>

\* cmd.get_color_tuple of the host: it knows red and blue and raises otherwise
KnownColor(name) == name \in {"red", "blue"}
get_color_tuple(name) == IF name = "red" THEN Pt(1, 0, 0, 1) ELSE Pt(0, 0, 1, 1)

\* str.split() of the color arguments drawn
SplitWords(c) == IF c = "red blue" THEN <<"red", "blue">> ELSE IF c = "" THEN <<>> ELSE <<c>>

\* lines 149-161
ChainColor(i) ==
    IF ~bake_colors THEN <<>>
    ELSE IF custom_palette # <<>>
    THEN LET c_name == custom_palette[(i % Len(custom_palette)) + 1]
         IN  IF KnownColor(c_name) THEN get_color_tuple(c_name) ELSE Pt(8, 8, 8, 10)
    ELSE IF color # ""
    THEN IF KnownColor(color) THEN get_color_tuple(color) ELSE Pt(8, 8, 8, 10)
    ELSE pastel_colors[(i % Len(pastel_colors)) + 1]

\* the entries of a CGO list: an opcode of pymol.cgo, a float, or a
\* component of a normal
Op(name) == [t |-> "op", v |-> name]
Flt(x) == [t |-> "num", v |-> x]
Nrm(r) == [t |-> "root", v |-> r]
Triple(op, v) == <<Op(op), Flt(v[1]), Flt(v[2]), Flt(v[3])>>

\* a bug: the normal is written after the vertices
FaceCgoNormalLast(norm, v1, v2, v3) ==
    Triple("VERTEX", v1) \o Triple("VERTEX", v2) \o Triple("VERTEX", v3)
        \o <<Op("NORMAL"), Nrm(norm[1]), Nrm(norm[2]), Nrm(norm[3])>>

\* lines 175-178
FaceCgo(norm, v1, v2, v3) ==
    <<Op("NORMAL"), Nrm(norm[1]), Nrm(norm[2]), Nrm(norm[3])>>
        \o Triple("VERTEX", v1) \o Triple("VERTEX", v2) \o Triple("VERTEX", v3)

\* lines 168-178
RECURSIVE FacesCgo(_, _, _, _)
FacesCgo(simp_verts, simp_faces, k, out) ==
    IF k > Len(simp_faces) THEN out
    ELSE LET f  == simp_faces[k]
             v1 == simp_verts[f[1] + 1]
             v2 == simp_verts[f[2] + 1]
             v3 == simp_verts[f[3] + 1]
         IN  FacesCgo(simp_verts, simp_faces, k + 1,
                      out \o FaceCgo(calculate_normal(v1, v2, v3).n, v1, v2, v3))

\* lines 163-180
BlockCgo(rgb, simp_verts, simp_faces) ==
    <<Op("BEGIN"), Op("TRIANGLES")>>
        \o (IF rgb # <<>> THEN Triple("COLOR", rgb) ELSE <<>>)
        \o FacesCgo(simp_verts, simp_faces, 1, <<>>)
        \o <<Op("END")>>

\* sorted(list(stored))
RECURSIVE Sorted(_)
Sorted(S) ==
    IF S = {} THEN <<>>
    ELSE LET m == CHOOSE x \in S : \A y \in S : x <= y
         IN  <<m>> \o Sorted(S \ {m})

(* What the caller and the host can supply *)

MaxRounding == 1

\* a factor float() accepts, and one it rejects with a ValueError or a
\* TypeError ('abc', None)
FactorArg(x) == [kind |-> "num", val |-> x]
BadFactor == [kind |-> "bad", val |-> Zero]

\* 'abc', nan, inf, -1, 0, 0.1, 0.2, the default 7.5
FactorArgs ==
    { BadFactor, FactorArg(NaN), FactorArg(PosInf), FactorArg(<<-1, 1>>), FactorArg(Zero),
      FactorArg(<<1, 10>>), FactorArg(<<1, 5>>), FactorArg(<<15, 2>>) }

\* a rounding int() accepts, one it rejects with a ValueError or a TypeError,
\* and float('inf'), for which int() raises OverflowError
RoundingArg(n) == [kind |-> "num", val |-> n]
BadRounding == [kind |-> "bad", val |-> 0]
InfRounding == [kind |-> "inf", val |-> 0]

RoundingArgs == { BadRounding, InfRounding } \cup { RoundingArg(n) : n \in -1..MaxRounding }

ColorArgs == { "", "none", "red", "nocolor", "red blue" }

\* what cmd.iterate leaves in stored, or "raise"
IterateResults == { [raise |-> TRUE, stored |-> {}], [raise |-> FALSE, stored |-> {}],
                    [raise |-> FALSE, stored |-> {1}], [raise |-> FALSE, stored |-> {1, 2}] }

\* the file of test_coloring_chains: 'v 0 0 0', 'v 1 0 0', 'v 0 1 0', 'f 1 2 3'
SpreadObj ==
    << VLine(<<Num(0), Num(0), Num(0)>>), VLine(<<Num(1), Num(0), Num(0)>>),
       VLine(<<Num(0), Num(1), Num(0)>>), FLine(<< <<Idx(1)>>, <<Idx(2)>>, <<Idx(3)>> >>) >>

\* a comment, four vertices (one with a fourth token) and a quad with
\* texture and normal sub-fields
QuadObj ==
    << OtherLine,
       VLine(<<Num(0), Num(0), Num(0)>>), VLine(<<Num(9), Num(0), Num(0), Num(1)>>),
       VLine(<<Num(9), Num(9), Num(0)>>), VLine(<<Num(0), Num(9), Num(-9)>>),
       FLine(<< <<Idx(1), Idx(1), Idx(1)>>, <<Idx(2), Idx(2), Idx(1)>>,
                <<Idx(3), Idx(3), Idx(1)>>, <<Idx(4), Idx(4), Idx(1)>> >>) >>

\* 'v 0 0 x': a malformed numeric token
BadTokenObj == << VLine(<<Num(0), Num(0), BadNum>>) >> \o SpreadObj

\* 'v 0 0': a vertex line with fewer than three coordinates, used by a face
ShortVertexObj ==
    << VLine(<<Num(0), Num(0)>>), VLine(<<Num(1), Num(0), Num(0)>>),
       VLine(<<Num(0), Num(1), Num(0)>>), FLine(<< <<Idx(1)>>, <<Idx(2)>>, <<Idx(3)>> >>) >>

\* 'f 1 2 4' over three vertices: a face index outside the vertex list
BadIndexObj ==
    << VLine(<<Num(0), Num(0), Num(0)>>), VLine(<<Num(1), Num(0), Num(0)>>),
       VLine(<<Num(0), Num(1), Num(0)>>), FLine(<< <<Idx(1)>>, <<Idx(2)>>, <<Idx(4)>> >>) >>

NoVerticesObj == << OtherLine >>

NoFacesObj == << VLine(<<Num(0), Num(0), Num(0)>>), VLine(<<Num(1), Num(0), Num(0)>>) >>

ObjFiles == { SpreadObj, QuadObj, BadTokenObj, ShortVertexObj, BadIndexObj,
              NoVerticesObj, NoFacesObj }

\* what the host does for one chain: cmd.count_atoms is 0, cmd.save raises,
\* or cmd.save writes a file
ChainSources ==
    { [kind |-> "no_atoms", lines |-> <<>>], [kind |-> "save_fails", lines |-> <<>>] }
        \cup { [kind |-> "file", lines |-> f] : f \in ObjFiles }

(* The steps of the command *)

LpInit ==
    /\ lp_pc = "start"
    /\ lp_args = [factor |-> BadFactor, rounding |-> BadRounding]
    /\ factor = Zero
    /\ rounding = 0
    /\ color = ""
    /\ custom_palette = <<>>
    /\ bake_colors = TRUE
    /\ temp_obj = "none"
    /\ chains = <<>>
    /\ idx = 0
    /\ full_cgo = <<>>
    /\ loaded = <<>>
    /\ pretty = FALSE
    /\ lp_outcome = "running"
    /\ vc_calls = <<>>
    /\ ls_calls = <<>>
    /\ fragments = <<>>
    /\ lp_log = <<>>

LpIdle ==
    /\ lp_pc = "idle"
    /\ lp_args = [factor |-> BadFactor, rounding |-> BadRounding]
    /\ factor = Zero
    /\ rounding = 0
    /\ color = ""
    /\ custom_palette = <<>>
    /\ bake_colors = TRUE
    /\ temp_obj = "none"
    /\ chains = <<>>
    /\ idx = 0
    /\ full_cgo = <<>>
    /\ loaded = <<>>
    /\ pretty = FALSE
    /\ lp_outcome = "running"
    /\ vc_calls = <<>>
    /\ ls_calls = <<>>
    /\ fragments = <<>>
    /\ lp_log = <<>>

\* if factor <= 0.1: factor = 0.5 (a comparison with NaN is false)
Clamp(f) ==
    IF f = <<-1, 0>> \/ (IsFinite(f) /\ RLe(f, <<1, 10>>)) THEN <<1, 2>> ELSE f

\* lines 33-40: float(factor) and int(rounding) in one try; a ValueError or
\* TypeError returns, the OverflowError of int(inf) is not caught
LpValidate ==
    /\ lp_pc = "start"
    /\ \E fa \in FactorArgs, ra \in RoundingArgs :
        /\ lp_args' = [factor |-> fa, rounding |-> ra]
        /\ IF fa.kind = "bad" \/ ra.kind = "bad"
           THEN /\ lp_pc' = "done"
                /\ lp_outcome' = "invalid_args"
                /\ UNCHANGED <<factor, rounding>>
           ELSE IF ra.kind = "inf"
           THEN /\ lp_pc' = "done"
                /\ lp_outcome' = "OverflowError"
                /\ UNCHANGED <<factor, rounding>>
           ELSE /\ lp_pc' = "setup"
                /\ factor' = Clamp(fa.val)
                /\ rounding' = ra.val
                /\ UNCHANGED lp_outcome
    /\ UNCHANGED <<color, custom_palette, bake_colors, temp_obj, chains, idx, full_cgo,
                   loaded, pretty, vc_calls, ls_calls, fragments, lp_log>>

\* lines 42-102: the color logic, the temporary object, the chains
LpSetup ==
    /\ lp_pc = "setup"
    /\ \E c \in ColorArgs :
        /\ bake_colors' = (c # "none")
        /\ custom_palette' = IF c # "none" /\ Len(SplitWords(c)) > 1 THEN SplitWords(c) ELSE <<>>
        /\ color' = c
    /\ temp_obj' = "created"
    /\ \E it \in IterateResults :
        LET stored == IF it.raise THEN {0} ELSE it.stored
        IN  chains' = IF Sorted(stored) = <<>> THEN <<0>> ELSE Sorted(stored)
    /\ lp_pc' = "chains"
    /\ UNCHANGED <<lp_args, factor, rounding, idx, full_cgo, loaded, pretty, lp_outcome,
                   vc_calls, ls_calls, fragments, lp_log>>

\* the loop body was left by `continue`
LpSkip(why) ==
    /\ lp_log' = Append(lp_log, why)
    /\ idx' = idx + 1
    /\ UNCHANGED <<lp_pc, temp_obj, full_cgo, lp_outcome, vc_calls, ls_calls, fragments>>

\* an exception left the loop: the finally of line 182 deletes the temporary
\* object and the exception leaves lowpoly
LpRaise(e, cells) ==
    /\ lp_log' = Append(lp_log, "raised")
    /\ lp_outcome' = e
    /\ temp_obj' = "deleted"
    /\ lp_pc' = "done"
    /\ vc_calls' = vc_calls \o cells
    /\ UNCHANGED <<idx, full_cgo, ls_calls, fragments>>

\* lines 105-180: one turn of the loop over the chains
LpChain ==
    /\ lp_pc = "chains"
    /\ idx < Len(chains)
    /\ \E src \in ChainSources :
        LET chain  == chains[idx + 1]
            parsed == parse_obj(src.lines)
            flat   == FlatVerts(parsed.verts, parsed.faces, 1, <<>>)
            simp   == vertex_clustering(flat.flat, factor)
            simp_verts == IF rounding > 0
                          THEN laplacian_smooth(simp.verts, simp.faces, rounding, <<1, 2>>)
                          ELSE simp.verts
            rgb    == ChainColor(idx)
        IN  IF src.kind = "no_atoms" THEN LpSkip("no_atoms")
            ELSE IF src.kind = "save_fails" THEN LpSkip("save_failed")
            ELSE IF parsed.err # "none" THEN LpSkip("parse_error")
            ELSE IF parsed.verts = <<>> THEN LpSkip("no_vertices")
            ELSE IF flat.err # "none" THEN LpRaise(flat.err, <<>>)
            ELSE IF flat.flat = <<>> THEN LpSkip("no_faces")
            ELSE IF simp.err # "none" THEN LpRaise(simp.err, <<factor>>)
            ELSE /\ vc_calls' = Append(vc_calls, factor)
                 /\ ls_calls' = IF rounding > 0 THEN Append(ls_calls, rounding) ELSE ls_calls
                 /\ full_cgo' = full_cgo \o BlockCgo(rgb, simp_verts, simp.faces)
                 /\ fragments' = Append(fragments,
                        [chain |-> chain, verts |-> simp.verts, faces |-> simp.faces, rgb |-> rgb])
                 /\ lp_log' = Append(lp_log, "emitted")
                 /\ idx' = idx + 1
                 /\ UNCHANGED <<lp_pc, temp_obj, lp_outcome>>
    /\ UNCHANGED <<lp_args, factor, rounding, color, custom_palette, bake_colors, chains,
                   loaded, pretty>>

\* lines 182-212: the loop is over
LpFinish ==
    /\ lp_pc = "chains"
    /\ idx = Len(chains)
    /\ temp_obj' = "deleted"
    /\ lp_pc' = "done"
    /\ IF full_cgo = <<>>
       THEN /\ lp_outcome' = "empty_mesh"
            /\ UNCHANGED <<loaded, pretty>>
       ELSE /\ loaded' = Append(loaded, full_cgo)
            /\ lp_outcome' = "success"
            /\ \E cartoon_style \in BOOLEAN : pretty' = cartoon_style
    /\ UNCHANGED <<lp_args, factor, rounding, color, custom_palette, bake_colors, chains,
                   idx, full_cgo, vc_calls, ls_calls, fragments, lp_log>>

-----------------------------------------------------------------------------
(* Properties of lowpoly                                                    *)

IsOp(cgo, p, name) == p <= Len(cgo) /\ cgo[p].t = "op" /\ cgo[p].v = name
HasThree(cgo, p, t) == p + 3 <= Len(cgo) /\ \A k \in 1..3 : cgo[p + k].t = t
ThreeAt(cgo, p) == <<cgo[p + 1].v, cgo[p + 2].v, cgo[p + 3].v>>

\* reads NORMAL n n n VERTEX x y z VERTEX x y z VERTEX x y z as often as it
\* is there, from position p on
RECURSIVE DecodeFaces(_, _, _)
DecodeFaces(cgo, p, tris) ==
    IF /\ IsOp(cgo, p, "NORMAL") /\ HasThree(cgo, p, "root")
       /\ \A c \in 1..3 : IsOp(cgo, p + 4 * c, "VERTEX") /\ HasThree(cgo, p + 4 * c, "num")
    THEN DecodeFaces(cgo, p + 16,
                     Append(tris, [normal |-> ThreeAt(cgo, p),
                                   v |-> [c \in 1..3 |-> ThreeAt(cgo, p + 4 * c)]]))
    ELSE [next |-> p, tris |-> tris]

\* reads a list as blocks BEGIN TRIANGLES [COLOR r g b] faces END, one after
\* the other and nothing else; ok is FALSE when the list is not of that form
RECURSIVE Decode(_, _, _)
Decode(cgo, p, blocks) ==
    IF p > Len(cgo) THEN [ok |-> TRUE, blocks |-> blocks]
    ELSE IF ~(IsOp(cgo, p, "BEGIN") /\ IsOp(cgo, p + 1, "TRIANGLES"))
    THEN [ok |-> FALSE, blocks |-> blocks]
    ELSE LET colored == IsOp(cgo, p + 2, "COLOR") /\ HasThree(cgo, p + 2, "num")
             body == DecodeFaces(cgo, IF colored THEN p + 6 ELSE p + 2, <<>>)
         IN  IF IsOp(cgo, body.next, "END")
             THEN Decode(cgo, body.next + 1,
                         Append(blocks, [rgb |-> IF colored THEN ThreeAt(cgo, p + 2) ELSE <<>>,
                                         tris |-> body.tris]))
             ELSE [ok |-> FALSE, blocks |-> blocks]

\* the chains the loop appended a block for, in the order it met them
EmittedChains ==
    LET at == { k \in 1..Len(lp_log) : lp_log[k] = "emitted" }
    IN  Sorted({ chains[k] : k \in at })

\* the list is, block for block, what the fragments ask for
CgoMatches(cgo) ==
    LET d == Decode(cgo, 1, <<>>)
    IN  /\ d.ok
        /\ Len(d.blocks) = Len(fragments)
        /\ [b \in 1..Len(fragments) |-> fragments[b].chain] = EmittedChains
        /\ \A b \in 1..Len(fragments) :
            LET fr == fragments[b]
                smoothed == IF rounding > 0
                            THEN SmoothPasses(fr.verts, Adjacency(Len(fr.verts), fr.faces),
                                              rounding, <<1, 2>>)
                            ELSE fr.verts
            IN  /\ d.blocks[b].rgb = fr.rgb
                /\ Len(d.blocks[b].tris) = Len(fr.faces)
                /\ \A j \in 1..Len(fr.faces) : \A c \in 1..3 :
                    d.blocks[b].tris[j].v[c] = smoothed[fr.faces[j][c] + 1]

\* C8: the list passed to cmd.load_cgo is, for each emitted fragment in
\* sorted chain order, BEGIN TRIANGLES, at most one COLOR triple, then per
\* face in face-list order a NORMAL triple and exactly three VERTEX triples
\* (the face's vertices after smoothing), then END; no block is nested in
\* another and every BEGIN is closed before the next.
C8_CommandSequence ==
    /\ lp_pc \in {"chains", "done"} => CgoMatches(full_cgo)
    /\ \A k \in 1..Len(loaded) : loaded[k] = full_cgo
    /\ lp_outcome = "success" => Len(loaded) = 1

\* two chains were loaded, smoothed, the first with a color and two faces
C8_Witness ==
    /\ lp_outcome = "success"
    /\ Len(fragments) = 2
    /\ rounding > 0
    /\ fragments[1].rgb # <<>>
    /\ Len(fragments[1].faces) = 2
    /\ Len(fragments[2].faces) = 1

\* C6: when loading or decimation yields no vertices or no faces, lowpoly
\* reports that no geometry was produced and hands the host no command
\* sequence without triangles: no list passed to cmd.load_cgo holds a
\* BEGIN..END block without a triangle, and a run in which no fragment has a
\* face ends as the empty-mesh error.
C6_NoEmptyBlock ==
    /\ \A k \in 1..Len(loaded) :
        LET d == Decode(loaded[k], 1, <<>>)
        IN  d.ok /\ \A b \in 1..Len(d.blocks) : Len(d.blocks[b].tris) > 0
    /\ (lp_outcome \in {"success", "empty_mesh"}
            /\ \A b \in 1..Len(fragments) : fragments[b].faces = <<>>) =>
        (lp_outcome = "empty_mesh" /\ loaded = <<>>)

IsPositive(x) == x = PosInf \/ (IsFinite(x) /\ x[1] > 0)

\* C7: in a run over several chains with valid arguments, a failure while
\* one chain's fragment is parsed or decimated does not end the run: the loop
\* goes through every chain, and the blocks of the chains that succeeded are
\* loaded.
C7_FailureIsLocal ==
    (lp_pc = "done" /\ Len(chains) >= 2 /\ temp_obj # "none" /\ IsPositive(factor)) =>
        /\ Len(lp_log) = Len(chains)
        /\ \A k \in 1..Len(lp_log) : lp_log[k] # "raised"
        /\ fragments # <<>> => loaded = <<full_cgo>>

\* C10: the cell size vertex_clustering is called with is strictly positive
\* (a factor <= 0.1 has become 0.5), laplacian_smooth is never called with a
\* negative iteration count, and a factor or rounding that is no number ends
\* the call before the temporary object is created.
C10_ValidatedParameters ==
    /\ \A k \in 1..Len(vc_calls) : IsPositive(vc_calls[k])
    /\ \A k \in 1..Len(ls_calls) : ls_calls[k] >= 0
    /\ (lp_pc \in {"setup", "chains"} /\ IsFinite(lp_args.factor.val)
            /\ RLe(lp_args.factor.val, <<1, 10>>)) => factor = <<1, 2>>
    /\ (lp_pc = "done" /\ (lp_args.factor.kind = "bad" \/ lp_args.rounding.kind = "bad")) =>
        (lp_outcome = "invalid_args" /\ temp_obj = "none")

-----------------------------------------------------------------------------
(* Specifications: one per function under study, the others idle            *)

vars == <<vcVars, lsVars, cnVars, lpVars>>

InitCluster == VcInit /\ LsIdle /\ CnIdle /\ LpIdle

NextCluster ==
    \/ Cluster /\ UNCHANGED <<lsVars, cnVars, lpVars>>
    \/ Recluster /\ UNCHANGED <<lsVars, cnVars, lpVars>>

SpecCluster == InitCluster /\ [][NextCluster]_vars

InitSmooth == LsInit /\ VcIdle /\ CnIdle /\ LpIdle

NextSmooth ==
    \/ LsEnter /\ UNCHANGED <<vcVars, cnVars, lpVars>>
    \/ LsPassBegin /\ UNCHANGED <<vcVars, cnVars, lpVars>>
    \/ LsVisit /\ UNCHANGED <<vcVars, cnVars, lpVars>>
    \/ LsPassEnd /\ UNCHANGED <<vcVars, cnVars, lpVars>>
    \/ LsReturn /\ UNCHANGED <<vcVars, cnVars, lpVars>>

SpecSmooth == InitSmooth /\ [][NextSmooth]_vars

InitNormal == CnInit /\ VcIdle /\ LsIdle /\ LpIdle

NextNormal ==
    \/ Normal /\ UNCHANGED <<vcVars, lsVars, lpVars>>
    \/ NormalReversed /\ UNCHANGED <<vcVars, lsVars, lpVars>>

SpecNormal == InitNormal /\ [][NextNormal]_vars

InitLowpoly == LpInit /\ VcIdle /\ LsIdle /\ CnIdle

NextLowpoly ==
    \/ LpValidate /\ UNCHANGED <<vcVars, lsVars, cnVars>>
    \/ LpSetup /\ UNCHANGED <<vcVars, lsVars, cnVars>>
    \/ LpChain /\ UNCHANGED <<vcVars, lsVars, cnVars>>
    \/ LpFinish /\ UNCHANGED <<vcVars, lsVars, cnVars>>

SpecLowpoly == InitLowpoly /\ [][NextLowpoly]_vars

=============================================================================
